---- MODULE Spec2Model ----
(***************************************************************************)
(* Model of node-opcua's ClientSidePublishEngine                           *)
(* (lib/client/client_publish_engine.js) and of its AddressSpace           *)
(* (lib/address_space/address_space.js).                                   *)
(*                                                                         *)
(* The engine is single-threaded and cooperative: every step below is one  *)
(* complete JavaScript turn (a public method call made by the client, one  *)
(* closure run by setImmediate, or one callback fired by session.publish). *)
(* The address space is a second object, independent of the engine: a step *)
(* of one leaves the other as it is.                                       *)
(***************************************************************************)
EXTENDS Integers, Sequences, FiniteSets, TLC

\* ---------------------------------------------------------------- bounds
MaxAcks == 2                \* longest acknowledgement buffer explored
MaxRegisters == 2           \* successful registrations explored by Spec
MaxRegistersAcks == 1       \* successful registrations explored by SpecAcks
MaxUnderflow == 1           \* how far below zero activeSubscriptionCount is followed
MaxAcksOps == 1             \* longest acknowledgement buffer explored by SpecOps
MaxRegistersOps == 2        \* successful registrations explored by SpecOps
MaxPathLen == 2             \* longest relativePath.elements given to browsePath

\* ------------------------------------------------------ program constants
publishRequestCountInPipeline == 5
DefaultTimeoutHint == 10000

\* ----------------------------------------------------------------- inputs
SubscriptionIds == {1, 2}
SequenceNumbers == {1, 2}
TimeoutHints == {1000, 20000}
Callbacks == {"f", "g"}
Null == "null"
Session == "session"

\* notificationMessage.notificationData as it arrives: absent (null or
\* undefined), an empty array, or an array of notifications.
NotificationDatas ==
    { [present |-> FALSE, items |-> <<>>],
      [present |-> TRUE, items |-> <<>>],
      [present |-> TRUE, items |-> <<"n", "n">>] }

Responses ==
    [subscriptionId : SubscriptionIds,
     sequenceNumber : SequenceNumbers,
     notificationData : NotificationDatas]

KeepAlives == {r \in Responses : r.notificationData.items = <<>>}

NoResponse ==
    [subscriptionId |-> 0, sequenceNumber |-> 0,
     notificationData |-> [present |-> FALSE, items |-> <<>>]]

NoDispatch ==
    [called |-> FALSE, subscriptionId |-> 0, callback |-> Null, notificationData |-> <<>>]

NoRequest ==
    [issued |-> FALSE, timeoutHint |-> 0, subscriptionAcknowledgements |-> <<>>]

VARIABLES
    \* the fields of ClientSidePublishEngine
    session,                        \* Session, or Null once terminated
    subscriptionAcknowledgements,   \* sequence of [subscriptionId, sequenceNumber]
    subscriptionIdFuncMap,          \* function: registered subscription id -> callback
    timeoutHint,
    activeSubscriptionCount,
    nbPendingPublishRequests,
    \* the runtime and the session
    immediateQueue,                 \* closures queued by setImmediate, not yet run
    publishCallbacks,               \* callbacks handed to session.publish, not yet fired
    \* what the last step did, as seen from outside the engine
    op,                             \* name of the operation
    arg,                            \* the response it was given (NoResponse if none)
    err,                            \* TRUE when the publish callback got an error
    dispatched,                     \* the subscription callback it invoked (or NoDispatch)
    request,                        \* the PublishRequest it gave to session.publish (or NoRequest)
    \* history
    nbRegistered,                   \* registerSubscriptionCallback calls that succeeded
    responded,                      \* TRUE once a publish callback has fired
    ackLog,                         \* the acknowledgements appended since the last request
                                    \* was issued and not cleaned up since, each with its
                                    \* origin (a response, or a call by the client) and
                                    \* whether a publish callback has fired since its append
    sentLog,                        \* ackLog as it was when the last step issued its request
    \* the fields of AddressSpace; an object used as a map is a function
    \* whose domain is the set of its own keys
    _nodeid_index,                  \* nodeId.toString() -> node
    _aliases,                       \* alias name -> NodeId
    _objectTypeMap,                 \* browseName -> node
    _objectMap,
    _variableTypeMap,
    _referenceTypeMap,
    _referenceTypeMapInv,           \* inverseName.text -> node
    _dataTypeMap,
    \* the last call made on the address space, as seen by its caller
    called,                         \* name of the method ("" when the step made none)
    input,                          \* its argument
    output,                         \* [threw, value]: what it returned, or that it threw
    \* the call of browsePath that is running, when it is followed one call
    \* of explore_element at a time
    callStack,                      \* the activations of explore_element, the oldest first
    res                             \* the targets that have been pushed

engineVars ==
    <<session, subscriptionAcknowledgements, subscriptionIdFuncMap, timeoutHint,
      activeSubscriptionCount, nbPendingPublishRequests>>
runtimeVars == <<immediateQueue, publishCallbacks>>
observedVars == <<op, arg, err, dispatched, request>>
historyVars == <<nbRegistered, responded, ackLog, sentLog>>
addressSpaceVars ==
    <<_nodeid_index, _aliases, _objectTypeMap, _objectMap, _variableTypeMap,
      _referenceTypeMap, _referenceTypeMapInv, _dataTypeMap>>
callVars == <<called, input, output>>
traversalVars == <<callStack, res>>
publishEngineVars == <<engineVars, runtimeVars, observedVars, historyVars>>
vars == <<publishEngineVars, addressSpaceVars, callVars, traversalVars>>

\* ---------------------------------------------------------------- helpers
Max(a, b) == IF a >= b THEN a ELSE b

Ack(subscriptionId, sequenceNumber) ==
    [subscriptionId |-> subscriptionId, sequenceNumber |-> sequenceNumber]

\* faulty variant: every key is deleted
Remove_All(f, key) == [k \in {} |-> Null]

\* delete obj[key]
Remove(f, key) == [k \in (DOMAIN f) \ {key} |-> f[k]]

\* obj[key] = value
Put(f, key, value) == [k \in (DOMAIN f) \cup {key} |-> IF k = key THEN value ELSE f[k]]

\* the number of entries of s equal to x
Count(s, x) == Cardinality({i \in 1..Len(s) : s[i] = x})

\* ------------------------------------------------------------ the engine
\* faulty variant: the entry is put at the front of the buffer (unshift)
acknowledge_notification_Unshift(acks, subscriptionId, sequenceNumber) ==
    <<Ack(subscriptionId, sequenceNumber)>> \o acks

\* acknowledge_notification: push one entry at the end of the buffer
acknowledge_notification(acks, subscriptionId, sequenceNumber) ==
    Append(acks, Ack(subscriptionId, sequenceNumber))

\* cleanup_acknowledgment_for_subscription: filter the buffer
cleanup_acknowledgment_for_subscription(acks, subscriptionId) ==
    SelectSeq(acks, LAMBDA a : a.subscriptionId # subscriptionId)

\* faulty variant: the closure does not test the session
SessionPresent_Untested(sess) == TRUE

\* send_publish_request: the test made by the closure given to setImmediate
SessionPresent(sess) == sess # Null

\* _send_publish_request: the acknowledgements taken for the request, and
\* the buffer left behind
DrainedAcknowledgements(acks) == acks
BufferAfterDrain(acks) == <<>>

\* faulty variant: the product is taken before the counter is incremented
calculatedTimeout_BeforeIncrement(nbPending, hint) == (nbPending - 1) * hint

\* _send_publish_request: the timeoutHint written in the request header
calculatedTimeout(nbPending, hint) == nbPending * hint

\* faulty variant: the counter is decremented on success only
PendingAfterCallback_SuccessOnly(nbPending, isError) ==
    IF isError THEN nbPending ELSE nbPending - 1

\* the publish callback: the counter after a callback has fired
PendingAfterCallback(nbPending, isError) == nbPending - 1

\* faulty variants: the callback refills whatever the subscription count
\* is, or refills twice, or never refills
RefillCount_Always(activeCount) == 1
RefillCount_Never(activeCount) == 0
RefillCount_Twice(activeCount) == IF activeCount > 0 THEN 2 ELSE 0

\* the publish callback: how many send_publish_request calls it makes
RefillCount(activeCount) == IF activeCount > 0 THEN 1 ELSE 0

\* faulty variant: the loop alone, without the call that precedes it
PipelineBurst_LoopOnly == publishRequestCountInPipeline - 1

\* registerSubscriptionCallback: how many send_publish_request calls it makes
PipelineBurst == 1 + (publishRequestCountInPipeline - 1)

\* faulty variant: the argument overwrites the field
RegisteredTimeoutHint_Overwrite(current, hint) == hint

\* registerSubscriptionCallback: the new timeoutHint
RegisteredTimeoutHint(current, hint) == Max(current, hint)

\* unregisterSubscriptionCallback: the counter is decremented before the
\* assertion on the map is evaluated
UnregisteredCount(activeCount) == activeCount - 1

\* _receive_publish_response: notificationData || []
NotificationDataOf(response) ==
    IF response.notificationData.present THEN response.notificationData.items ELSE <<>>

\* faulty variants: a keep-alive is acknowledged too, or nothing is
ReceivedAcknowledgements_KeepAliveToo(acks, response) ==
    acknowledge_notification(acks, response.subscriptionId, response.sequenceNumber)
ReceivedAcknowledgements_Never(acks, response) == acks

\* _receive_publish_response: the acknowledgement buffer it leaves
ReceivedAcknowledgements(acks, response) ==
    IF Len(NotificationDataOf(response)) # 0
    THEN acknowledge_notification(acks, response.subscriptionId, response.sequenceNumber)
    ELSE acks

\* faulty variant: the session is not tested
CallbackInvoked_SessionUntested(funcMap, sess, response) ==
    response.subscriptionId \in DOMAIN funcMap

\* _receive_publish_response: whether the subscription's callback is invoked
CallbackInvoked(funcMap, sess, response) ==
    response.subscriptionId \in DOMAIN funcMap /\ sess # Null

\* _receive_publish_response: the callback invocation it makes, if any
Dispatch(funcMap, sess, response) ==
    IF CallbackInvoked(funcMap, sess, response)
    THEN [called |-> TRUE,
          subscriptionId |-> response.subscriptionId,
          callback |-> funcMap[response.subscriptionId],
          notificationData |-> NotificationDataOf(response)]
    ELSE NoDispatch

\* ---------------------------------------------------------------- history
LogEntry(subscriptionId, sequenceNumber, fromResponse) ==
    [subscriptionId |-> subscriptionId, sequenceNumber |-> sequenceNumber,
     old |-> FALSE, fromResponse |-> fromResponse]

\* one more publish callback has fired
Aged(log) == [i \in 1..Len(log) |-> [log[i] EXCEPT !.old = TRUE]]

\* the acknowledgements the log holds, in the order of their append
LogAcks(log) == [i \in 1..Len(log) |-> Ack(log[i].subscriptionId, log[i].sequenceNumber)]

\* ------------------------------------------------------ the address space
\* {}: an object without own keys
EmptyObject == << >>

\* what a lookup of an absent key gives, shaped like a node
undefined ==
    [nodeId |-> 0, nodeClass |-> "undefined", browseName |-> "", inverseName |-> "",
     references |-> <<>>]

\* obj[key]
Lookup(obj, key) == IF key \in DOMAIN obj THEN obj[key] ELSE undefined

\* the outcome of a call: it returned value, or it threw (value then means
\* nothing and only keeps the shape of a returned one)
Returned(value) == [threw |-> FALSE, value |-> value]
Thrown(value) == [threw |-> TRUE, value |-> value]

NoInput == <<>>
NoOutput == Returned(<<>>)

\* _constructors_map: the node classes _createObject has a constructor for
ConstructedNodeClasses ==
    {"Object", "ObjectType", "ReferenceType", "Variable", "VariableType", "DataType"}

\* new constructor(options): the node that the class-specific constructor
\* builds, for what the address space reads of it
Node(options) ==
    [nodeId |-> options.nodeId, nodeClass |-> options.nodeClass,
     browseName |-> options.browseName, inverseName |-> options.inverseName,
     references |-> options.references]

\* the strings of the model that start with "i=", with the NodeId that the
\* global resolveNodeId parses them to
NodeIdOfString == ("i=31" :> 31) @@ ("i=35" :> 35)

\* refType.substring(0, 2) === "i="
IsNodeIdString(refType) == refType \in DOMAIN NodeIdOfString

\* findObject(nodeId) for a NodeId object: resolveNodeId gives it back as it
\* is (it is no string, so the aliases are not consulted)
findObject(nodeId) == Lookup(_nodeid_index, nodeId)

\* an argument that is a NodeId object, and one that is a string
NodeIdArg(nodeId) == [isString |-> FALSE, string |-> "", nodeId |-> nodeId]
StringArg(string) == [isString |-> TRUE, string |-> string, nodeId |-> 0]

\* faulty variant: the alias table is read under the string of a NodeId too
resolveNodeId_AliasOfNodeId(nodeid) ==
    LET strings == IF nodeid.isString
                   THEN {nodeid.string}
                   ELSE {t \in DOMAIN NodeIdOfString :
                            NodeIdOfString[t] = nodeid.nodeId}
        aliased == strings \cap DOMAIN _aliases
    IN  IF aliased # {}
        THEN _aliases[CHOOSE t \in aliased : TRUE]
        ELSE IF nodeid.isString
        THEN NodeIdOfString[nodeid.string]
        ELSE nodeid.nodeId

\* AddressSpace.prototype.resolveNodeId(nodeid): a string that is an alias
\* gives the aliased NodeId; any other string is parsed by the global
\* resolveNodeId; a NodeId is given back
resolveNodeId(nodeid) ==
    IF nodeid.isString /\ nodeid.string \in DOMAIN _aliases
    THEN _aliases[nodeid.string]
    ELSE IF nodeid.isString
    THEN NodeIdOfString[nodeid.string]
    ELSE nodeid.nodeId

\* findObject(nodeId), for an argument of either kind
findObjectOf(nodeid) == Lookup(_nodeid_index, resolveNodeId(nodeid))

\* findReferenceType(refType)
findReferenceType(refType) ==
    IF IsNodeIdString(refType)
    THEN LET object == findObject(NodeIdOfString[refType])
         IN  IF object # undefined /\ object.nodeClass = "ReferenceType"
             THEN Returned(object)
             ELSE Thrown(undefined)
    ELSE LET object == Lookup(_referenceTypeMap, refType)
         IN  IF object = undefined
                \/ (object.nodeClass = "ReferenceType" /\ object.browseName = refType)
             THEN Returned(object)
             ELSE Thrown(undefined)

\* findReferenceTypeFromInverseName(inverseName)
findReferenceTypeFromInverseName(inverseName) ==
    LET object == Lookup(_referenceTypeMapInv, inverseName)
    IN  IF object = undefined
           \/ (object.nodeClass = "ReferenceType" /\ object.inverseName = inverseName)
        THEN Returned(object)
        ELSE Thrown(undefined)

\* !isForward, on the values an isForward can have
JsNot(isForward) == IF isForward = "true" THEN "false" ELSE "true"

\* normalizeReferenceType(params)
normalizeReferenceType(params) ==
    LET isForward == IF params.isForward = "null" THEN "true" ELSE params.isForward
        defaulted == [params EXCEPT !.isForward = isForward]
        f1 == findReferenceType(params.referenceType)
        f2 == findReferenceTypeFromInverseName(params.referenceType)
        n1 == f1.value
        n2 == f2.value
    IN  IF f1.threw \/ f2.threw THEN Thrown(defaulted)
        ELSE IF n1 = undefined /\ n2 = undefined THEN Returned(defaulted)
        ELSE IF n1 # undefined
             THEN IF n2 # undefined THEN Thrown(defaulted) ELSE Returned(defaulted)
        ELSE Returned([referenceType |-> n2.browseName, isForward |-> JsNot(isForward)])

\* inverseReferenceType(referenceType)
inverseReferenceType(referenceType) ==
    LET f1 == findReferenceType(referenceType)
        f2 == findReferenceTypeFromInverseName(referenceType)
        n1 == f1.value
        n2 == f2.value
    IN  IF f1.threw \/ f2.threw THEN Thrown("")
        ELSE IF n1 # undefined
             THEN IF n2 # undefined THEN Thrown("") ELSE Returned(n1.inverseName)
        ELSE IF n2 = undefined THEN Thrown("") ELSE Returned(n2.browseName)

\* new BrowsePathResult({statusCode: ..., targets: ...}); targets is empty
\* when it is not given
BrowsePathResult(statusCode, targets) == [statusCode |-> statusCode, targets |-> targets]

\* the status codes browsePath gives to a BrowsePathResult
BrowseStatusCodes ==
    {"Bad_NodeIdUnknown", "Bad_NothingToDo", "Bad_BrowseNameInvalid",
     "Bad_NoMatch", "Good"}

\* the remainingPathIndex of a target that consumed the whole path
FullPath == "0xFFFFFFFF"

\* node.browseNodeByTargetName(element): the NodeIds of the nodes that the
\* references of node lead to, in the direction the element asks for, and
\* whose browse name is element.targetName.name, in the order of the
\* references. The name of a target is read from the target, so a reference
\* to a NodeId that is not registered yields nothing. (referenceTypeId i=0
\* selects the references of every type.)
browseNodeByTargetName(node, element) ==
    LET matching ==
            SelectSeq(node.references,
                      LAMBDA reference :
                          /\ reference.isForward = ~element.isInverse
                          /\ reference.nodeId \in DOMAIN _nodeid_index
                          /\ _nodeid_index[reference.nodeId].browseName
                                 = element.targetName.name)
    IN  [i \in 1..Len(matching) |-> matching[i].nodeId]

\* faulty variant: the wrong field of the target is looked up
NodeOfTarget_RemainingPathIndex(target) == findObject(target.remainingPathIndex)

\* explore_element: self.findObject(target.targetId)
NodeOfTarget(target) == findObject(target.targetId)

\* explore_element(curNodeObject, elements, index) of browsePath, with the
\* targets it pushes on res as its value; index counts from 1 here. A call
\* on a node that is undefined throws (a TypeError, at
\* curNodeObject.browseNodeByTargetName). ExploreTargets is its
\* targets.forEach on the targets of an element that is not the last.
RECURSIVE explore_element(_, _, _)
RECURSIVE ExploreTargets(_, _, _)
explore_element(curNodeObject, elements, index) ==
    IF curNodeObject = undefined
    THEN Thrown(<<>>)
    ELSE LET nodeIds == browseNodeByTargetName(curNodeObject, elements[index])
             targets ==
                 [i \in 1..Len(nodeIds) |->
                     [targetId |-> nodeIds[i],
                      remainingPathIndex |-> Len(elements) - (index - 1)]]
             is_last == index = Len(elements)
         IN  IF ~is_last
             THEN ExploreTargets(targets, elements, index)
             ELSE Returned([i \in 1..Len(targets) |->
                               [targetId |-> targets[i].targetId,
                                remainingPathIndex |-> FullPath]])

\* faulty variant: the targets of the later branches come first
ExploreTargets_LaterFirst(targets, elements, index) ==
    IF targets = <<>>
    THEN Returned(<<>>)
    ELSE LET first == explore_element(NodeOfTarget(Head(targets)), elements, index + 1)
         IN  IF first.threw
             THEN first
             ELSE LET rest == ExploreTargets(Tail(targets), elements, index)
                  IN  IF rest.threw THEN rest ELSE Returned(rest.value \o first.value)

ExploreTargets(targets, elements, index) ==
    IF targets = <<>>
    THEN Returned(<<>>)
    ELSE LET first == explore_element(NodeOfTarget(Head(targets)), elements, index + 1)
         IN  IF first.threw
             THEN first
             ELSE LET rest == ExploreTargets(Tail(targets), elements, index)
                  IN  IF rest.threw THEN rest ELSE Returned(first.value \o rest.value)

\* the test browsePath makes on the last element of the path
TargetNameMissing(element) ==
    \/ ~element.targetName.present
    \/ element.targetName.name = ""

\* faulty variant: the elements are looked at before the starting node
browsePath_ElementsFirst(path) ==
    LET startingNode == findObject(path.startingNode)
        elements == path.relativePath.elements
    IN  IF Len(elements) = 0
        THEN Returned(BrowsePathResult("Bad_NothingToDo", <<>>))
        ELSE IF TargetNameMissing(elements[Len(elements)])
        THEN Returned(BrowsePathResult("Bad_BrowseNameInvalid", <<>>))
        ELSE IF startingNode = undefined
        THEN Returned(BrowsePathResult("Bad_NodeIdUnknown", <<>>))
        ELSE LET explored == explore_element(startingNode, elements, 1)
             IN  IF explored.threw THEN Thrown(BrowsePathResult("", <<>>))
                 ELSE IF Len(explored.value) = 0
                 THEN Returned(BrowsePathResult("Bad_NoMatch", <<>>))
                 ELSE Returned(BrowsePathResult("Good", explored.value))

\* browsePath(browsePath), with path for its argument
browsePath(path) ==
    LET startingNode == findObject(path.startingNode)
        elements == path.relativePath.elements
    IN  IF startingNode = undefined
        THEN Returned(BrowsePathResult("Bad_NodeIdUnknown", <<>>))
        ELSE IF Len(elements) = 0
        THEN Returned(BrowsePathResult("Bad_NothingToDo", <<>>))
        ELSE IF TargetNameMissing(elements[Len(elements)])
        THEN Returned(BrowsePathResult("Bad_BrowseNameInvalid", <<>>))
        ELSE LET explored == explore_element(startingNode, elements, 1)
             IN  IF explored.threw THEN Thrown(BrowsePathResult("", <<>>))
                 ELSE IF Len(explored.value) = 0
                 THEN Returned(BrowsePathResult("Bad_NoMatch", <<>>))
                 ELSE Returned(BrowsePathResult("Good", explored.value))

\* rootFolderId = makeNodeId(84)
RootFolderId == 84

\* a path string is the sequence of its parts: names and the separator "."
\* path.split("."): the names between the separators, "" where there is
\* none
RECURSIVE Split(_)
Split(path) ==
    IF path = <<>>
    THEN <<"">>
    ELSE LET rest == Split(Tail(path))
         IN  IF Head(path) = "."
             THEN <<"">> \o rest
             ELSE [rest EXCEPT ![1] = Head(path)]

\* constructBrowsePath(startingNode, path), for a path without namespace
\* prefixes: startingNode is set to rootFolderId when it is "/", and the
\* BrowsePath is built with startingNode: rootFolderId
constructBrowsePath(startingNode, path) ==
    LET given == IF startingNode.isString /\ startingNode.string = "/"
                 THEN NodeIdArg(RootFolderId)
                 ELSE startingNode
        arr == Split(path)
        elements ==
            [i \in 1..Len(arr) |->
                [referenceTypeId |-> 0, isInverse |-> FALSE, includeSubtypes |-> FALSE,
                 targetName |-> [present |-> TRUE, name |-> arr[i]]]]
    IN  [startingNode |-> RootFolderId, relativePath |-> [elements |-> elements]]

\* what simpleBrowsePath returns: null, or a targetId
NotFound == [found |-> FALSE, targetId |-> 0]
Found(targetId) == [found |-> TRUE, targetId |-> targetId]

\* simpleBrowsePath(startingNode, pathname). On a Good result it reads the
\* property should of a number, which exists only in a program that has
\* loaded should.js (this file does not): shouldLoaded says whether it has.
simpleBrowsePath(startingNode, pathname, shouldLoaded) ==
    LET browsePathResult == browsePath(constructBrowsePath(startingNode, pathname))
        targets == browsePathResult.value.targets
    IN  IF browsePathResult.threw
        THEN Thrown(NotFound)
        ELSE IF browsePathResult.value.statusCode # "Good"
        THEN Returned(NotFound)
        ELSE IF Len(targets) < 1 \/ ~shouldLoaded
                \/ targets[Len(targets)].remainingPathIndex # FullPath
        THEN Thrown(NotFound)
        ELSE Returned(Found(targets[Len(targets)].targetId))

\* ------------------------------------------- inputs of the address space
ReferenceTypeNames == {"Organizes", "OrganizedBy", "HasChild"}
UnknownNames == {"Unknown"}
ReferenceTypeIds == {31, 35}

\* the options of a ReferenceType: any two of the names, also the same one
\* twice, under either id
ReferenceTypeOptions ==
    [nodeId : ReferenceTypeIds, nodeClass : {"ReferenceType"},
     browseName : ReferenceTypeNames, inverseName : ReferenceTypeNames,
     references : {<<>>}]

\* the options _createObject is given when a registry is loaded: a node of
\* any class with a constructor, or of the class View, which has none, under
\* either id and either name; the inverseName.text of a ReferenceType is a
\* name or empty
NodeClasses == ConstructedNodeClasses \cup {"View"}
RegistryNames == {"Organizes", "OrganizedBy"}
RegistryOptions ==
    [nodeId : ReferenceTypeIds, nodeClass : NodeClasses \ {"ReferenceType"},
     browseName : RegistryNames, inverseName : {""}, references : {<<>>}]
        \cup [nodeId : ReferenceTypeIds, nodeClass : {"ReferenceType"},
              browseName : RegistryNames, inverseName : {"", "OrganizedBy"},
              references : {<<>>}]

\* the alias names given to add_alias: a plain name, and one that reads
\* like a NodeId
AliasNames == {"HasTypeDefinition", "i=31"}

\* the NodeIds given to add_alias: the two of the registry and one that is
\* never registered
AliasTargets == ReferenceTypeIds \cup {40}

\* the arguments given to findObject and resolveNodeId
FindObjectArgs ==
    {NodeIdArg(nodeId) : nodeId \in AliasTargets}
        \cup {StringArg(string) : string \in DOMAIN NodeIdOfString}
        \cup {StringArg(string) : string \in AliasNames}

\* the ids of the Object nodes that are loaded, and one that never is
ObjectIds == {RootFolderId, 85, 86}
UnregisteredIds == {99}
ObjectNames == {"Objects", "Server"}

\* new Reference({referenceType: "Organizes", nodeId: ..., isForward: ...})
Organizes(nodeId, isForward) ==
    [referenceType |-> "Organizes", nodeId |-> nodeId, isForward |-> isForward]

\* the references a node is built with: none, or a node that is never
\* loaded, two children, a loop to the root and an inverse reference
ObjectReferences ==
    { <<>>,
      <<Organizes(99, TRUE), Organizes(85, TRUE), Organizes(86, TRUE),
        Organizes(RootFolderId, TRUE), Organizes(85, FALSE)>> }

ObjectOptions ==
    [nodeId : ObjectIds, nodeClass : {"Object"}, browseName : ObjectNames,
     inverseName : {""}, references : ObjectReferences]

\* element.targetName: null, a QualifiedName with an empty name, or a
\* QualifiedName with a name
TargetNames ==
    {[present |-> FALSE, name |-> ""], [present |-> TRUE, name |-> ""]}
        \cup {[present |-> TRUE, name |-> name] : name \in ObjectNames}

\* the RelativePathElements, as constructBrowsePath builds them but for the
\* target name
RelativePathElements ==
    [referenceTypeId : {0}, isInverse : {FALSE}, includeSubtypes : {FALSE},
     targetName : TargetNames]

\* the sequences of at most n elements
RECURSIVE ElementsUpTo(_)
ElementsUpTo(n) ==
    IF n = 0
    THEN {<<>>}
    ELSE ElementsUpTo(n - 1)
             \cup {Append(elements, element) :
                       elements \in {e \in ElementsUpTo(n - 1) : Len(e) = n - 1},
                       element \in RelativePathElements}

BrowsePaths ==
    [startingNode : {RootFolderId} \cup UnregisteredIds,
     relativePath : [elements : ElementsUpTo(MaxPathLen)]]

\* the references of the nodes of SpecRoutes: those of ObjectReferences, or
\* the two children the other way round
RouteReferences ==
    ObjectReferences \cup {<<Organizes(86, TRUE), Organizes(85, TRUE)>>}

RouteOptions ==
    [nodeId : ObjectIds, nodeClass : {"Object"}, browseName : ObjectNames,
     inverseName : {""}, references : RouteReferences]

\* the paths from the root whose elements all have a target name
RoutePaths ==
    [startingNode : {RootFolderId},
     relativePath :
         [elements : {elements \in ElementsUpTo(MaxPathLen) :
                         \A i \in DOMAIN elements :
                             elements[i].targetName.name # ""}]]

\* the paths of SpecTraverse: those of BrowsePaths in which every element
\* before the last has a target name
TraversePaths ==
    {path \in BrowsePaths :
        \A i \in DOMAIN path.relativePath.elements :
            i < Len(path.relativePath.elements)
                => path.relativePath.elements[i].targetName.name # ""}

\* the path strings given to simpleBrowsePath: "", "Objects", "Server",
\* "Objects.Server", "Objects.Objects" and "Objects."
PathNames ==
    { <<>>, <<"Objects">>, <<"Server">>, <<"Objects", ".", "Server">>,
      <<"Objects", ".", "Objects">>, <<"Objects", ".">> }

\* the starting nodes given to simpleBrowsePath: "/" or a NodeId
StartingNodes ==
    {StringArg("/")} \cup {NodeIdArg(nodeId) : nodeId \in {RootFolderId, 85}}

\* params.isForward: a boolean, null, or left out
IsForwardValues == {"true", "false", "null", "undefined"}

NormalizeParams ==
    [referenceType : ReferenceTypeNames \cup UnknownNames, isForward : IsForwardValues]

\* ------------------------------------------------------------------- Init
Init ==
    /\ session = Session
    /\ subscriptionAcknowledgements = <<>>
    /\ subscriptionIdFuncMap = [k \in {} |-> Null]
    /\ timeoutHint = DefaultTimeoutHint
    /\ activeSubscriptionCount = 0
    /\ nbPendingPublishRequests = 0
    /\ immediateQueue = 0
    /\ publishCallbacks = 0
    /\ op = "new"
    /\ arg = NoResponse
    /\ err = FALSE
    /\ dispatched = NoDispatch
    /\ request = NoRequest
    /\ nbRegistered = 0
    /\ responded = FALSE
    /\ ackLog = <<>>
    /\ sentLog = <<>>
    /\ _nodeid_index = EmptyObject
    /\ _aliases = EmptyObject
    /\ _objectTypeMap = EmptyObject
    /\ _objectMap = EmptyObject
    /\ _variableTypeMap = EmptyObject
    /\ _referenceTypeMap = EmptyObject
    /\ _referenceTypeMapInv = EmptyObject
    /\ _dataTypeMap = EmptyObject
    /\ called = ""
    /\ input = NoInput
    /\ output = NoOutput
    /\ callStack = <<>>
    /\ res = <<>>

\* a step that is no publish callback observes no response and no dispatch
NoResponseObserved == arg' = NoResponse /\ err' = FALSE /\ dispatched' = NoDispatch

\* a step that issues no request
NoRequestIssued == request' = NoRequest /\ sentLog' = <<>>

\* a step of the publish engine makes no call on the address space
NoAddressSpaceCall ==
    /\ called' = ""
    /\ input' = NoInput
    /\ output' = NoOutput
    /\ UNCHANGED <<addressSpaceVars, traversalVars>>

\* ---------------------------------------------------------------- actions
\* acknowledge_notification(subscriptionId, sequenceNumber), called by the client
AcknowledgeNotification(subscriptionId, sequenceNumber) ==
    /\ subscriptionAcknowledgements' =
           acknowledge_notification(subscriptionAcknowledgements, subscriptionId, sequenceNumber)
    /\ ackLog' = Append(ackLog, LogEntry(subscriptionId, sequenceNumber, FALSE))
    /\ op' = "acknowledge_notification"
    /\ NoResponseObserved
    /\ NoRequestIssued
    /\ UNCHANGED <<session, subscriptionIdFuncMap, timeoutHint, activeSubscriptionCount,
                   nbPendingPublishRequests, runtimeVars, nbRegistered, responded>>
    /\ NoAddressSpaceCall

\* cleanup_acknowledgment_for_subscription(subscriptionId)
CleanupAcknowledgment(subscriptionId) ==
    /\ subscriptionAcknowledgements' =
           cleanup_acknowledgment_for_subscription(subscriptionAcknowledgements, subscriptionId)
    /\ ackLog' = SelectSeq(ackLog, LAMBDA e : e.subscriptionId # subscriptionId)
    /\ op' = "cleanup_acknowledgment_for_subscription"
    /\ NoResponseObserved
    /\ NoRequestIssued
    /\ UNCHANGED <<session, subscriptionIdFuncMap, timeoutHint, activeSubscriptionCount,
                   nbPendingPublishRequests, runtimeVars, nbRegistered, responded>>
    /\ NoAddressSpaceCall

\* terminate()
Terminate ==
    /\ session' = Null
    /\ op' = "terminate"
    /\ NoResponseObserved
    /\ NoRequestIssued
    /\ UNCHANGED <<subscriptionAcknowledgements, subscriptionIdFuncMap, timeoutHint,
                   activeSubscriptionCount, nbPendingPublishRequests, runtimeVars,
                   nbRegistered, responded, ackLog>>
    /\ NoAddressSpaceCall

\* registerSubscriptionCallback(subscriptionId, timeoutHint, callback); the
\* assertion on the map is the first statement that can fail, and it fails
\* before any field is written
RegisterSubscriptionCallback(subscriptionId, hint, callback) ==
    /\ IF subscriptionId \in DOMAIN subscriptionIdFuncMap
       THEN /\ op' = "registerSubscriptionCallback:assert"
            /\ UNCHANGED <<activeSubscriptionCount, subscriptionIdFuncMap, timeoutHint,
                           immediateQueue, nbRegistered>>
       ELSE /\ op' = "registerSubscriptionCallback"
            /\ activeSubscriptionCount' = activeSubscriptionCount + 1
            /\ subscriptionIdFuncMap' = Put(subscriptionIdFuncMap, subscriptionId, callback)
            /\ timeoutHint' = RegisteredTimeoutHint(timeoutHint, hint)
            /\ immediateQueue' = immediateQueue + PipelineBurst
            /\ nbRegistered' = nbRegistered + 1
    /\ NoResponseObserved
    /\ NoRequestIssued
    /\ UNCHANGED <<session, subscriptionAcknowledgements, nbPendingPublishRequests,
                   publishCallbacks, responded, ackLog>>
    /\ NoAddressSpaceCall

\* unregisterSubscriptionCallback(subscriptionId): the counter is decremented,
\* then the assertion on the map is evaluated, then the entry is deleted
UnregisterSubscriptionCallback(subscriptionId) ==
    /\ activeSubscriptionCount' =
           UnregisteredCount(activeSubscriptionCount)
    /\ IF subscriptionId \in DOMAIN subscriptionIdFuncMap
       THEN /\ subscriptionIdFuncMap' = Remove(subscriptionIdFuncMap, subscriptionId)
            /\ op' = "unregisterSubscriptionCallback"
       ELSE /\ UNCHANGED subscriptionIdFuncMap
            /\ op' = "unregisterSubscriptionCallback:assert"
    /\ NoResponseObserved
    /\ NoRequestIssued
    /\ UNCHANGED <<session, subscriptionAcknowledgements, timeoutHint,
                   nbPendingPublishRequests, runtimeVars, nbRegistered, responded, ackLog>>
    /\ NoAddressSpaceCall

\* one closure queued by send_publish_request runs: it returns at once when
\* the session is gone, and calls _send_publish_request otherwise
SendPublishRequest ==
    /\ immediateQueue > 0
    /\ immediateQueue' = immediateQueue - 1
    /\ IF SessionPresent(session)
       THEN /\ nbPendingPublishRequests' = nbPendingPublishRequests + 1
            /\ request' =
                   [issued |-> TRUE,
                    timeoutHint |-> calculatedTimeout(nbPendingPublishRequests', timeoutHint),
                    subscriptionAcknowledgements |->
                        DrainedAcknowledgements(subscriptionAcknowledgements)]
            /\ subscriptionAcknowledgements' = BufferAfterDrain(subscriptionAcknowledgements)
            /\ ackLog' = <<>>
            /\ sentLog' = ackLog
            /\ publishCallbacks' = publishCallbacks + 1
            /\ op' = "_send_publish_request"
       ELSE /\ op' = "send_publish_request:dropped"
            /\ NoRequestIssued
            /\ UNCHANGED <<nbPendingPublishRequests, subscriptionAcknowledgements, ackLog,
                           publishCallbacks>>
    /\ NoResponseObserved
    /\ UNCHANGED <<session, subscriptionIdFuncMap, timeoutHint, activeSubscriptionCount,
                   nbRegistered, responded>>
    /\ NoAddressSpaceCall

\* the session fires one of the callbacks given to session.publish, with an
\* error or with a response
PublishCallback(isError, response) ==
    /\ publishCallbacks > 0
    /\ publishCallbacks' = publishCallbacks - 1
    /\ nbPendingPublishRequests' = PendingAfterCallback(nbPendingPublishRequests, isError)
    /\ responded' = TRUE
    /\ IF isError
       THEN /\ arg' = NoResponse
            /\ dispatched' = NoDispatch
            /\ ackLog' = Aged(ackLog)
            /\ UNCHANGED subscriptionAcknowledgements
       ELSE /\ arg' = response
            /\ subscriptionAcknowledgements' =
                   ReceivedAcknowledgements(subscriptionAcknowledgements, response)
            /\ ackLog' =
                   IF Len(NotificationDataOf(response)) # 0
                   THEN Append(Aged(ackLog),
                               LogEntry(response.subscriptionId, response.sequenceNumber, TRUE))
                   ELSE Aged(ackLog)
            /\ dispatched' = Dispatch(subscriptionIdFuncMap, session, response)
    /\ err' = isError
    /\ immediateQueue' = immediateQueue + RefillCount(activeSubscriptionCount)
    /\ op' = "publish:callback"
    /\ NoRequestIssued
    /\ UNCHANGED <<session, subscriptionIdFuncMap, timeoutHint, activeSubscriptionCount,
                   nbRegistered>>
    /\ NoAddressSpaceCall

\* ------------------------------------------- actions of the address space
\* _register(object) throws: the nodeId is registered already, the
\* inverseName.text of a ReferenceType is empty, or the node class has no index
registerThrows(object) ==
    \/ object.nodeId \in DOMAIN _nodeid_index
    \/ object.nodeClass = "ReferenceType" /\ object.inverseName = ""
    \/ object.nodeClass \notin ConstructedNodeClasses

\* faulty variant: a nodeId that is registered already is not refused
_register_Overwrite(object) ==
    /\ _nodeid_index' = Put(_nodeid_index, object.nodeId, object)
    /\ _objectTypeMap' =
           IF object.nodeClass = "ObjectType"
           THEN Put(_objectTypeMap, object.browseName, object) ELSE _objectTypeMap
    /\ _variableTypeMap' =
           IF object.nodeClass = "VariableType"
           THEN Put(_variableTypeMap, object.browseName, object) ELSE _variableTypeMap
    /\ _objectMap' =
           IF object.nodeClass \in {"Object", "Variable"}
           THEN Put(_objectMap, object.browseName, object) ELSE _objectMap
    /\ _referenceTypeMap' =
           IF object.nodeClass = "ReferenceType" /\ object.inverseName # ""
           THEN Put(_referenceTypeMap, object.browseName, object) ELSE _referenceTypeMap
    /\ _referenceTypeMapInv' =
           IF object.nodeClass = "ReferenceType" /\ object.inverseName # ""
           THEN Put(_referenceTypeMapInv, object.inverseName, object)
           ELSE _referenceTypeMapInv
    /\ _dataTypeMap' =
           IF object.nodeClass = "DataType"
           THEN Put(_dataTypeMap, object.browseName, object) ELSE _dataTypeMap
    /\ UNCHANGED _aliases

\* _register(object): the nodeId index is written before the node class is
\* looked at, so that the index keeps a node that a later statement rejects
_register(object) ==
    IF object.nodeId \in DOMAIN _nodeid_index
    THEN UNCHANGED addressSpaceVars
    ELSE /\ _nodeid_index' = Put(_nodeid_index, object.nodeId, object)
         /\ _objectTypeMap' =
                IF object.nodeClass = "ObjectType"
                THEN Put(_objectTypeMap, object.browseName, object) ELSE _objectTypeMap
         /\ _variableTypeMap' =
                IF object.nodeClass = "VariableType"
                THEN Put(_variableTypeMap, object.browseName, object) ELSE _variableTypeMap
         /\ _objectMap' =
                IF object.nodeClass \in {"Object", "Variable"}
                THEN Put(_objectMap, object.browseName, object) ELSE _objectMap
         /\ _referenceTypeMap' =
                IF object.nodeClass = "ReferenceType" /\ object.inverseName # ""
                THEN Put(_referenceTypeMap, object.browseName, object) ELSE _referenceTypeMap
         /\ _referenceTypeMapInv' =
                IF object.nodeClass = "ReferenceType" /\ object.inverseName # ""
                THEN Put(_referenceTypeMapInv, object.inverseName, object)
                ELSE _referenceTypeMapInv
         /\ _dataTypeMap' =
                IF object.nodeClass = "DataType"
                THEN Put(_dataTypeMap, object.browseName, object) ELSE _dataTypeMap
         /\ UNCHANGED _aliases

\* _createObject(options): the constructor is looked up by node class, the
\* node is built and registered, and the node is returned
_createObject(options) ==
    /\ called' = "_createObject"
    /\ input' = options
    /\ IF options.nodeClass \in ConstructedNodeClasses
       THEN /\ _register(Node(options))
            /\ output' =
                   IF registerThrows(Node(options))
                   THEN Thrown(undefined)
                   ELSE Returned(Node(options))
       ELSE /\ output' = Thrown(undefined)
            /\ UNCHANGED addressSpaceVars
    /\ UNCHANGED <<publishEngineVars, traversalVars>>

\* add_alias(alias_name, nodeId)
add_alias(alias_name, nodeId) ==
    /\ called' = "add_alias"
    /\ input' = [alias_name |-> alias_name, nodeId |-> nodeId]
    /\ output' = NoOutput
    /\ _aliases' = Put(_aliases, alias_name, nodeId)
    /\ UNCHANGED <<_nodeid_index, _objectTypeMap, _objectMap, _variableTypeMap,
                   _referenceTypeMap, _referenceTypeMapInv, _dataTypeMap>>
    /\ UNCHANGED <<publishEngineVars, traversalVars>>

\* a call of findObject(nodeId) with a NodeId, or with a string that is an
\* alias or that the global resolveNodeId can parse
FindObject(nodeid) ==
    /\ nodeid.isString =>
           nodeid.string \in DOMAIN _aliases \cup DOMAIN NodeIdOfString
    /\ called' = "findObject"
    /\ input' = nodeid
    /\ output' = Returned(findObjectOf(nodeid))
    /\ UNCHANGED <<addressSpaceVars, publishEngineVars, traversalVars>>

\* a call of normalizeReferenceType(params)
NormalizeReferenceType(params) ==
    /\ called' = "normalizeReferenceType"
    /\ input' = params
    /\ output' = normalizeReferenceType(params)
    /\ UNCHANGED <<addressSpaceVars, publishEngineVars, traversalVars>>

\* a call of browsePath(browsePath)
BrowsePath(path) ==
    /\ called' = "browsePath"
    /\ input' = path
    /\ output' = browsePath(path)
    /\ UNCHANGED <<addressSpaceVars, publishEngineVars, traversalVars>>

\* faulty variant: the recursive call is made with the same index
NextIndex_Same(index) == index

\* explore_element: the index + 1 of its recursive call
NextIndex(index) == index + 1

\* an activation explore_element(curNodeObject, elements, index): the node
\* it is on, its index, and its targets, which are the nodes that
\* elements[index] leads to from the node
Activation(curNodeObject, elements, index) ==
    LET nodeIds == browseNodeByTargetName(curNodeObject, elements[index])
    IN  [node |-> curNodeObject.nodeId,
         index |-> index,
         targets |-> [i \in 1..Len(nodeIds) |->
                         [targetId |-> nodeIds[i],
                          remainingPathIndex |-> Len(elements) - (index - 1)]]]

\* browsePath(browsePath) up to its first call of explore_element: the
\* call returns at once when one of its three tests fails, and otherwise
\* explore_element(startingNode, elements, 0) is entered. No other call is
\* running (the code runs to completion).
BeginBrowsePath(path) ==
    /\ callStack = <<>>
    /\ called' = "browsePath"
    /\ input' = path
    /\ LET startingNode == findObject(path.startingNode)
           elements == path.relativePath.elements
       IN  IF startingNode = undefined
           THEN /\ output' = Returned(BrowsePathResult("Bad_NodeIdUnknown", <<>>))
                /\ UNCHANGED traversalVars
           ELSE IF Len(elements) = 0
           THEN /\ output' = Returned(BrowsePathResult("Bad_NothingToDo", <<>>))
                /\ UNCHANGED traversalVars
           ELSE IF TargetNameMissing(elements[Len(elements)])
           THEN /\ output' = Returned(BrowsePathResult("Bad_BrowseNameInvalid", <<>>))
                /\ UNCHANGED traversalVars
           ELSE /\ output' = NoOutput
                /\ callStack' = <<Activation(startingNode, elements, 1)>>
                /\ res' = <<>>
    /\ UNCHANGED <<addressSpaceVars, publishEngineVars>>

\* the next step of the running call of browsePath, made by the youngest
\* activation of explore_element: on the last element it pushes its
\* targets on res and returns; on another element it calls explore_element
\* on the node of its next target, or returns when it has no target left.
\* explore_element throws when it is called on a node that is undefined.
\* When the oldest activation returns, browsePath returns Bad_NoMatch if
\* res is empty and Good with res otherwise.
ExploreStep ==
    /\ callStack # <<>>
    /\ LET elements == input.relativePath.elements
           top == callStack[Len(callStack)]
           below == SubSeq(callStack, 1, Len(callStack) - 1)
           is_last == top.index = Len(elements)
           pushed == IF is_last
                     THEN res \o [i \in 1..Len(top.targets) |->
                                     [targetId |-> top.targets[i].targetId,
                                      remainingPathIndex |-> FullPath]]
                     ELSE res
           node == NodeOfTarget(Head(top.targets))
       IN  IF is_last \/ top.targets = <<>>
           THEN /\ callStack' = below
                /\ res' = pushed
                /\ output' =
                       IF below # <<>>
                       THEN output
                       ELSE IF Len(pushed) = 0
                       THEN Returned(BrowsePathResult("Bad_NoMatch", <<>>))
                       ELSE Returned(BrowsePathResult("Good", pushed))
           ELSE IF node = undefined
           THEN /\ callStack' = <<>>
                /\ res' = res
                /\ output' = Thrown(BrowsePathResult("", <<>>))
           ELSE /\ callStack' =
                       Append(Append(below, [top EXCEPT !.targets = Tail(@)]),
                              Activation(node, elements, NextIndex(top.index)))
                /\ res' = res
                /\ output' = output
    /\ UNCHANGED <<called, input, addressSpaceVars, publishEngineVars>>

\* a call of simpleBrowsePath(startingNode, pathname)
SimpleBrowsePath(startingNode, pathname) ==
    /\ called' = "simpleBrowsePath"
    /\ input' = [startingNode |-> startingNode, pathname |-> pathname]
    /\ \E shouldLoaded \in BOOLEAN :
           output' = simpleBrowsePath(startingNode, pathname, shouldLoaded)
    /\ UNCHANGED <<addressSpaceVars, publishEngineVars, traversalVars>>

\* a call of inverseReferenceType(referenceType)
InverseReferenceType(referenceType) ==
    /\ called' = "inverseReferenceType"
    /\ input' = referenceType
    /\ output' = inverseReferenceType(referenceType)
    /\ UNCHANGED <<addressSpaceVars, publishEngineVars, traversalVars>>

\* --------------------------------------------------------- specifications
\* Spec follows the request pipeline: up to MaxRegisters registrations, and
\* a session that answers with errors and keep-alives, so that the
\* acknowledgement buffer stays empty.
Next ==
    \/ Terminate
    \/ /\ nbRegistered < MaxRegisters
       /\ \E sid \in SubscriptionIds, hint \in TimeoutHints, cb \in Callbacks :
              RegisterSubscriptionCallback(sid, hint, cb)
    \/ \E sid \in SubscriptionIds :
          /\ sid \notin DOMAIN subscriptionIdFuncMap
                 => activeSubscriptionCount > 0 - MaxUnderflow
          /\ UnregisterSubscriptionCallback(sid)
    \/ SendPublishRequest
    \/ PublishCallback(TRUE, NoResponse)
    \/ \E response \in KeepAlives : PublishCallback(FALSE, response)

Spec == Init /\ [][Next]_vars

\* the event loop runs every queued closure, and the session answers every
\* request it was given
AnyPublishCallback ==
    \/ PublishCallback(TRUE, NoResponse)
    \/ \E response \in KeepAlives : PublishCallback(FALSE, response)

FairSpec ==
    /\ Spec
    /\ WF_vars(SendPublishRequest)
    /\ WF_vars(AnyPublishCallback)

\* SpecAcks follows the acknowledgements: every operation of the engine, a
\* session that answers with errors, keep-alives and notifications, up to
\* MaxRegistersAcks registrations and a buffer of up to MaxAcks entries.
NextAcks ==
    \/ /\ Len(subscriptionAcknowledgements) < MaxAcks
       /\ \E sid \in SubscriptionIds, seq \in SequenceNumbers :
              AcknowledgeNotification(sid, seq)
    \/ \E sid \in SubscriptionIds : CleanupAcknowledgment(sid)
    \/ Terminate
    \/ /\ nbRegistered < MaxRegistersAcks
       /\ \E sid \in SubscriptionIds :
              RegisterSubscriptionCallback(sid, DefaultTimeoutHint, "f")
    \/ \E sid \in DOMAIN subscriptionIdFuncMap : UnregisterSubscriptionCallback(sid)
    \/ SendPublishRequest
    \/ PublishCallback(TRUE, NoResponse)
    \/ \E response \in Responses :
          /\ Len(subscriptionAcknowledgements) < MaxAcks
          /\ PublishCallback(FALSE, response)

SpecAcks == Init /\ [][NextAcks]_vars

\* SpecOps takes every operation of the engine: registrations with either
\* timeoutHint and either callback (up to MaxRegistersOps of them, so that
\* an id can be registered again after it was unregistered),
\* acknowledgements given by the client (up to MaxAcksOps in the buffer),
\* and a session that answers with errors and keep-alives.
NextOps ==
    \/ /\ Len(subscriptionAcknowledgements) < MaxAcksOps
       /\ \E sid \in SubscriptionIds : AcknowledgeNotification(sid, 1)
    \/ \E sid \in SubscriptionIds : CleanupAcknowledgment(sid)
    \/ Terminate
    \/ /\ nbRegistered < MaxRegistersOps
       /\ \E sid \in SubscriptionIds, hint \in TimeoutHints, cb \in Callbacks :
              RegisterSubscriptionCallback(sid, hint, cb)
    \/ \E sid \in DOMAIN subscriptionIdFuncMap : UnregisterSubscriptionCallback(sid)
    \/ SendPublishRequest
    \/ PublishCallback(TRUE, NoResponse)
    \/ \E response \in KeepAlives : PublishCallback(FALSE, response)

SpecOps == Init /\ [][NextOps]_vars

FairSpecOps ==
    /\ SpecOps
    /\ WF_vars(SendPublishRequest)
    /\ WF_vars(AnyPublishCallback)

\* SpecRefTypes loads reference types into an address space and calls
\* normalizeReferenceType and inverseReferenceType on it.
NextRefTypes ==
    \/ \E options \in ReferenceTypeOptions : _createObject(options)
    \/ \E params \in NormalizeParams : NormalizeReferenceType(params)
    \/ \E name \in ReferenceTypeNames \cup UnknownNames : InverseReferenceType(name)

SpecRefTypes == Init /\ [][NextRefTypes]_vars

\* SpecRegistry loads nodes of every class into an address space, some of
\* them rejected, gives aliases, and looks nodes up.
NextRegistry ==
    \/ \E options \in RegistryOptions : _createObject(options)
    \/ \E alias_name \in AliasNames, nodeId \in AliasTargets :
           add_alias(alias_name, nodeId)
    \/ \E nodeid \in FindObjectArgs : FindObject(nodeid)

SpecRegistry == Init /\ [][NextRegistry]_vars

\* SpecRoutes loads Object nodes whose references differ from node to node
\* and browses paths of named elements from the root, with browsePath and
\* with simpleBrowsePath.
NextRoutes ==
    \/ \E options \in RouteOptions : _createObject(options)
    \/ \E path \in RoutePaths : BrowsePath(path)
    \/ \E startingNode \in StartingNodes, pathname \in PathNames :
           SimpleBrowsePath(startingNode, pathname)

SpecRoutes == Init /\ [][NextRoutes]_vars

\* SpecTraverse loads Object nodes as SpecBrowse does and follows each call
\* of browsePath one activation of explore_element at a time; a call that
\* has begun runs to its end before the next call is made. FairSpecTraverse
\* adds that a running call takes its next step.
NextTraverse ==
    \/ /\ callStack = <<>>
       /\ \E options \in ObjectOptions : _createObject(options)
    \/ \E path \in TraversePaths : BeginBrowsePath(path)
    \/ ExploreStep

SpecTraverse == Init /\ [][NextTraverse]_vars

FairSpecTraverse == SpecTraverse /\ WF_vars(ExploreStep)

\* SpecBrowse loads Object nodes with their references into an address
\* space, in any order, and calls browsePath on it with paths of up to
\* MaxPathLen elements.
NextBrowse ==
    \/ \E options \in ObjectOptions : _createObject(options)
    \/ \E path \in BrowsePaths : BrowsePath(path)

SpecBrowse == Init /\ [][NextBrowse]_vars

\* ================================================================ claims

\* C1: once terminate() has been called, no step invokes a subscription
\* callback, whatever response is delivered (also the response to a request
\* that was in flight at terminate(), also for a subscription that is still
\* registered). The session is never set again, so the steps after
\* terminate() are the steps whose state has session = Null.
C1_NoCallbackAfterTerminate ==
    session = Null => dispatched.called = FALSE

\* a notification for a registered subscription is delivered after terminate()
C1_Witness ==
    /\ session = Null
    /\ op = "publish:callback"
    /\ err = FALSE
    /\ arg.subscriptionId \in DOMAIN subscriptionIdFuncMap
    /\ arg.notificationData.items # <<>>
    /\ dispatched = NoDispatch

\* C2: after terminate() no PublishRequest is given to the session, and a
\* deferred send body that runs then (the only step that takes a closure off
\* the queue) leaves nbPendingPublishRequests as it was.
C2_NoRequestAfterTerminate ==
    [][session = Null =>
          /\ request' = NoRequest
          /\ publishCallbacks' <= publishCallbacks
          /\ immediateQueue' < immediateQueue =>
                 /\ op' = "send_publish_request:dropped"
                 /\ nbPendingPublishRequests' = nbPendingPublishRequests]_vars

\* a send body is dropped after terminate() while requests are in flight
C2_Witness ==
    /\ session = Null
    /\ op = "send_publish_request:dropped"
    /\ publishCallbacks > 0
    /\ responded

\* C3: on an engine that is not terminated, after n successful registrations,
\* once every deferred send body has run and before any publish callback has
\* fired, nbPendingPublishRequests = n * publishRequestCountInPipeline.
C3_PendingAfterRegistrations ==
    (session # Null /\ immediateQueue = 0 /\ ~responded)
        => nbPendingPublishRequests = nbRegistered * publishRequestCountInPipeline

\* two subscriptions registered, ten requests in flight
C3_Witness ==
    /\ session # Null
    /\ immediateQueue = 0
    /\ ~responded
    /\ nbRegistered = 2
    /\ Cardinality(DOMAIN subscriptionIdFuncMap) = 2
    /\ nbPendingPublishRequests = 2 * publishRequestCountInPipeline

C5_Original ==
    [][(activeSubscriptionCount = 0 /\ DOMAIN subscriptionIdFuncMap = {})
           => nbPendingPublishRequests' <= nbPendingPublishRequests]_vars

\* C5 (amended): while activeSubscriptionCount is 0 and no registration
\* succeeds, no send body is scheduled, so nbPendingPublishRequests rises by
\* no more than the send bodies that were already waiting; once none is
\* waiting it never rises, and when the event loop runs every closure and
\* the session answers every request it falls to zero (or a subscription is
\* registered first).
C5_PipelineDrains ==
    /\ [][(activeSubscriptionCount = 0 /\ nbRegistered' = nbRegistered) =>
             /\ immediateQueue' <= immediateQueue
             /\ nbPendingPublishRequests' + immediateQueue'
                    <= nbPendingPublishRequests + immediateQueue
             /\ immediateQueue = 0
                    => nbPendingPublishRequests' <= nbPendingPublishRequests]_vars
    /\ (activeSubscriptionCount = 0)
           ~> (\/ nbPendingPublishRequests = 0 /\ immediateQueue = 0
               \/ activeSubscriptionCount # 0)

\* the last subscription was unregistered and the pipeline has drained
C5_Witness ==
    /\ session # Null
    /\ activeSubscriptionCount = 0
    /\ subscriptionIdFuncMap = [k \in {} |-> Null]
    /\ nbRegistered >= 1
    /\ op = "publish:callback"
    /\ nbPendingPublishRequests = 0
    /\ immediateQueue = 0

\* the acknowledgements of sentLog that a response pushed
Owed == {i \in 1..Len(sentLog) : sentLog[i].fromResponse}

\* C6 (as stated): the batch sent with a request is the acknowledgements
\* received between two consecutive responses, in FIFO order and with none
\* lost. Whichever two responses are meant, such a batch never holds an
\* acknowledgement received before a publish callback fired together with
\* one that the client gave after that callback.
C6_Original ==
    op = "_send_publish_request" =>
        /\ request.subscriptionAcknowledgements = LogAcks(sentLog)
        /\ \A i, j \in 1..Len(sentLog) :
               ~(i < j /\ sentLog[i].old /\ ~sentLog[j].old /\ ~sentLog[j].fromResponse)

\* C6 (amended): the batch sent with a request is exactly the
\* acknowledgements appended to the buffer since the previous request was
\* issued (by the client or while a response was processed, whatever the
\* responses in between) and not removed by
\* cleanup_acknowledgment_for_subscription, in the order of their append;
\* the buffer is left empty, so that none is sent twice. Each of them was
\* appended before the request was issued.
C6_BatchIsBufferedAcknowledgements ==
    /\ subscriptionAcknowledgements = LogAcks(ackLog)
    /\ op = "_send_publish_request" =>
           /\ request.subscriptionAcknowledgements = LogAcks(sentLog)
           /\ subscriptionAcknowledgements = <<>>

\* a request carries two different acknowledgements, the first of them
\* received before a publish callback and the second given after it
C6_Witness ==
    /\ op = "_send_publish_request"
    /\ Len(request.subscriptionAcknowledgements) = 2
    /\ request.subscriptionAcknowledgements[1] # request.subscriptionAcknowledgements[2]
    /\ sentLog[1].old
    /\ ~sentLog[2].old
    /\ ~sentLog[2].fromResponse

\* C7 (as stated): the first request issued after a response with
\* notifications (sid, s) was processed carries {sid, s} exactly once,
\* unless cleanup_acknowledgment_for_subscription(sid) was called in between.
C7_Original ==
    op = "_send_publish_request" =>
        \A i \in Owed :
            Count(request.subscriptionAcknowledgements, LogAcks(sentLog)[i]) = 1

\* C7 (amended): that request carries {sid, s} once for each time the pair
\* was appended since the previous request (at least once, and exactly once
\* when no acknowledge_notification(sid, s) call and no other response with
\* the same sid and s came in between).
C7_NextRequestCarriesAck ==
    op = "_send_publish_request" =>
        \A i \in Owed :
            /\ Count(request.subscriptionAcknowledgements, LogAcks(sentLog)[i]) >= 1
            /\ Count(request.subscriptionAcknowledgements, LogAcks(sentLog)[i])
                   = Count(LogAcks(sentLog), LogAcks(sentLog)[i])

\* a request is issued right after a response with notifications, and
\* carries its one acknowledgement
C7_Witness ==
    /\ op = "_send_publish_request"
    /\ Len(sentLog) = 1
    /\ sentLog[1].fromResponse
    /\ ~sentLog[1].old
    /\ request.subscriptionAcknowledgements =
           <<Ack(sentLog[1].subscriptionId, sentLog[1].sequenceNumber)>>

\* C8: a publish callback given a response leaves the buffer as it was when
\* notificationData is absent or empty, and appends the one entry
\* (subscriptionId, notificationMessage.sequenceNumber) otherwise.
C8_KeepAliveNotAcknowledged ==
    [][(op' = "publish:callback" /\ ~err') =>
          subscriptionAcknowledgements' =
              IF arg'.notificationData.present /\ arg'.notificationData.items # <<>>
              THEN Append(subscriptionAcknowledgements,
                          Ack(arg'.subscriptionId, arg'.sequenceNumber))
              ELSE subscriptionAcknowledgements]_vars

\* a keep-alive without notificationData is processed while an
\* acknowledgement pushed by an earlier response is waiting
C8_Witness ==
    /\ op = "publish:callback"
    /\ ~err
    /\ ~arg.notificationData.present
    /\ Len(subscriptionAcknowledgements) = 1
    /\ Len(ackLog) = 1
    /\ ackLog[1].fromResponse

\* C9 (as stated): the callback map has activeSubscriptionCount entries.
C9_Original ==
    Cardinality(DOMAIN subscriptionIdFuncMap) = activeSubscriptionCount

\* C10: nbPendingPublishRequests is never negative, and equals the number of
\* callbacks given to session.publish that have not fired.
C10_PendingIsInFlight ==
    /\ nbPendingPublishRequests >= 0
    /\ nbPendingPublishRequests = publishCallbacks

\* a publish callback has reported an error while other requests are in flight
C10_Witness ==
    /\ op = "publish:callback"
    /\ err
    /\ publishCallbacks > 0
    /\ nbPendingPublishRequests = publishCallbacks

\* C11: every request given to session.publish carries
\* requestHeader.timeoutHint = nbPendingPublishRequests * timeoutHint, with
\* the counter taken after it was incremented for that request, and that is
\* never 0. After one registration with timeoutHint 1000 on a new engine
\* (timeoutHint stays 10000) and before any publish callback, the k-th
\* request carries k * 10000, and there are 5 of them once every send body
\* has run.
C11_TimeoutHintIsPendingTimesHint ==
    /\ op = "_send_publish_request" =>
           /\ request.timeoutHint = nbPendingPublishRequests * timeoutHint
           /\ request.timeoutHint # 0
    /\ (nbRegistered = 1 /\ timeoutHint = DefaultTimeoutHint /\ ~responded) =>
           /\ op = "_send_publish_request" =>
                  /\ nbPendingPublishRequests \in 1..publishRequestCountInPipeline
                  /\ request.timeoutHint = nbPendingPublishRequests * 10000
                  /\ nbPendingPublishRequests + immediateQueue
                         = publishRequestCountInPipeline
           /\ (session # Null /\ immediateQueue = 0) =>
                  nbPendingPublishRequests = publishRequestCountInPipeline

\* the fifth request after one registration with timeoutHint 1000
C11_Witness ==
    /\ op = "_send_publish_request"
    /\ nbRegistered = 1
    /\ timeoutHint = DefaultTimeoutHint
    /\ ~responded
    /\ immediateQueue = 0
    /\ request.timeoutHint = 50000

\* C12: a publish callback, with an error or with a response, decrements
\* nbPendingPublishRequests by one and schedules one send body when
\* activeSubscriptionCount > 0 and none otherwise; with an error it invokes
\* no subscription callback and leaves the acknowledgement buffer as it was.
C12_CallbackDecrementsAndRefills ==
    [][op' = "publish:callback" =>
          /\ nbPendingPublishRequests' = nbPendingPublishRequests - 1
          /\ immediateQueue' =
                 immediateQueue + (IF activeSubscriptionCount > 0 THEN 1 ELSE 0)
          /\ err' =>
                 /\ dispatched' = NoDispatch
                 /\ subscriptionAcknowledgements' = subscriptionAcknowledgements]_vars

\* an error is reported while a subscription is registered and an
\* acknowledgement is waiting in the buffer
C12_Witness ==
    /\ op = "publish:callback"
    /\ err
    /\ activeSubscriptionCount > 0
    /\ DOMAIN subscriptionIdFuncMap # {}
    /\ Len(subscriptionAcknowledgements) > 0
    /\ immediateQueue > 0

\* what unregisterSubscriptionCallback does on a registered id: one entry of
\* the map is deleted, the counter goes down by one, and nothing else is
\* written; the closures waiting and the requests in flight stay
UnregisterFrame ==
    /\ \E sid \in DOMAIN subscriptionIdFuncMap :
           subscriptionIdFuncMap' =
               [k \in (DOMAIN subscriptionIdFuncMap) \ {sid} |-> subscriptionIdFuncMap[k]]
    /\ activeSubscriptionCount' = activeSubscriptionCount - 1
    /\ UNCHANGED <<session, nbPendingPublishRequests, subscriptionAcknowledgements,
                   timeoutHint, immediateQueue, publishCallbacks>>

C14_TimeoutHintMonotone ==
    /\ timeoutHint = 10000
    /\ [][/\ timeoutHint' >= timeoutHint
          /\ op' = "registerSubscriptionCallback" =>
                 \E hint \in TimeoutHints :
                     timeoutHint' = IF timeoutHint >= hint THEN timeoutHint ELSE hint
          /\ op' # "registerSubscriptionCallback" => timeoutHint' = timeoutHint]_vars

\* after two registrations, one of which raised timeoutHint, an
\* acknowledgement is given while requests are in flight
C14_Witness ==
    /\ op = "acknowledge_notification"
    /\ nbRegistered = 2
    /\ timeoutHint = 20000
    /\ responded
    /\ publishCallbacks > 0

\* the reference types that are registered
RegisteredReferenceTypes ==
    {_nodeid_index[k] : k \in {i \in DOMAIN _nodeid_index :
                                  _nodeid_index[i].nodeClass = "ReferenceType"}}

\* C15 (as stated): after any registrations, every registered reference
\* type r is the one findReferenceType(r.browseName) returns and the one
\* findReferenceTypeFromInverseName(r.inverseName.text) returns; the entry of
\* the forward index under a name has its inverse name as a key of the
\* inverse index, which maps back to that entry.
C15_Original ==
    /\ \A r \in RegisteredReferenceTypes :
           /\ findReferenceType(r.browseName) = Returned(r)
           /\ findReferenceTypeFromInverseName(r.inverseName) = Returned(r)
    /\ \A x \in DOMAIN _referenceTypeMap :
           /\ _referenceTypeMap[x].inverseName \in DOMAIN _referenceTypeMapInv
           /\ _referenceTypeMapInv[_referenceTypeMap[x].inverseName] = _referenceTypeMap[x]

\* C18 (as stated): a call of normalizeReferenceType on a registered forward
\* name, a registered inverse name or an unknown name fails no assertion,
\* and normalizing what it returned gives that again.
C18_Original ==
    called = "normalizeReferenceType" =>
        /\ ~output.threw
        /\ normalizeReferenceType(output.value) = output

\* the names that are the browse name or the inverse name of a registered
\* reference type
KnownNames ==
    {r.browseName : r \in RegisteredReferenceTypes}
        \cup {r.inverseName : r \in RegisteredReferenceTypes}

\* C19 (as stated): for a name that is the browse name or the inverse name
\* of a registered reference type, whatever the registered types are,
\* inverseReferenceType(inverseReferenceType(name)) is the name.
C19_Original ==
    (called = "inverseReferenceType" /\ input \in KnownNames) =>
        /\ ~output.threw
        /\ inverseReferenceType(output.value) = Returned(input)

\* C20 (as stated): normalizeReferenceType returns a registered forward
\* browse name as it is; replaces a name that is only a registered inverse
\* name by the browse name of its type, with isForward negated; returns a
\* name that is neither as it is; and takes an isForward of null as true.
C20_Original ==
    called = "normalizeReferenceType" =>
        LET name == input.referenceType
            isForward == IF input.isForward = "null" THEN "true" ELSE input.isForward
            forward == name \in {r.browseName : r \in RegisteredReferenceTypes}
            inverse == name \in {r.inverseName : r \in RegisteredReferenceTypes}
        IN  /\ ~output.threw
            /\ output.value =
                   IF forward \/ ~inverse
                   THEN [referenceType |-> name, isForward |-> isForward]
                   ELSE [referenceType |-> _referenceTypeMapInv[name].browseName,
                         isForward |-> IF isForward = "true" THEN "false" ELSE "true"]

\* the forward references of the starting node of a path that lead to a
\* loaded node with the name the first element of the path asks for
FirstMatches(path) ==
    {i \in DOMAIN _nodeid_index[path.startingNode].references :
        LET reference == _nodeid_index[path.startingNode].references[i]
        IN  /\ reference.isForward
            /\ reference.nodeId \in DOMAIN _nodeid_index
            /\ _nodeid_index[reference.nodeId].browseName
                   = path.relativePath.elements[1].targetName.name}

\* the references of the starting node of a path that lead to a NodeId that
\* is not registered
Dangling(path) ==
    {i \in DOMAIN _nodeid_index[path.startingNode].references :
        _nodeid_index[path.startingNode].references[i].nodeId
            \notin DOMAIN _nodeid_index}

C17_StatusByFirstRule ==
    called = "browsePath" =>
        LET elements == input.relativePath.elements
            known == input.startingNode \in DOMAIN _nodeid_index
            last == elements[Len(elements)]
            unnamed == \/ ~last.targetName.present
                       \/ last.targetName.name = ""
            status == output.value.statusCode
        IN  /\ ~output.threw
            /\ status \in BrowseStatusCodes
            /\ status = "Bad_NodeIdUnknown" <=> ~known
            /\ status = "Bad_NothingToDo" <=> known /\ Len(elements) = 0
            /\ status = "Bad_BrowseNameInvalid"
                   <=> known /\ Len(elements) > 0 /\ unnamed
            /\ status = "Good" <=> Len(output.value.targets) > 0
            /\ status \in {"Bad_NoMatch", "Good"}
                   <=> known /\ Len(elements) > 0 /\ ~unnamed

\* browsePath was called with a starting node that is not registered and a
\* path without elements, and returned Bad_NodeIdUnknown
C17_Witness ==
    /\ called = "browsePath"
    /\ input.startingNode \notin DOMAIN _nodeid_index
    /\ Len(input.relativePath.elements) = 0
    /\ ~output.threw
    /\ output.value.statusCode = "Bad_NodeIdUnknown"

\* C21: the node that findObject returns for the nodeId of a registered
\* node is that node: a node that _createObject returned is found under its
\* nodeId from then on, every node of the index is found under its own
\* nodeId, and no later registration and no add_alias changes what
\* findObject returns for the nodeId of a registered node.
C21_FindObjectReturnsRegisteredNode ==
    [][ /\ \A id \in DOMAIN _nodeid_index :
               findObjectOf(NodeIdArg(id))' = findObjectOf(NodeIdArg(id))
        /\ \A id \in DOMAIN _nodeid_index' :
               findObjectOf(NodeIdArg(id))'.nodeId = id
        /\ \A id \in ReferenceTypeIds :
               (called' = "_createObject" /\ ~output'.threw
                    /\ output'.value.nodeId = id) =>
                   findObjectOf(NodeIdArg(id))' = output'.value
        /\ (called' = "findObject" /\ ~input'.isString
                /\ input'.nodeId \in DOMAIN _nodeid_index') =>
               output'.value.nodeId = input'.nodeId
      ]_vars

\* findObject was called with the NodeId of a registered node, while the
\* string of that NodeId is an alias of another registered node, and
\* returned the node of the NodeId
C21_Witness ==
    /\ called = "findObject"
    /\ ~input.isString
    /\ input.nodeId = 31
    /\ {31, 35} \subseteq DOMAIN _nodeid_index
    /\ "i=31" \in DOMAIN _aliases
    /\ _aliases["i=31"] = 35
    /\ output.value.nodeId = 31

\* C22: a registration of a node whose nodeId is in the nodeId index
\* already throws and leaves the nodeId index and every browse-name index
\* as they were; a registration that returns is of a nodeId that was not
\* in the index, and every node of the index is under its own nodeId, so no
\* two registered nodes share a nodeId.
C22_DuplicateNodeIdRejected ==
    [][ /\ (called' = "_createObject" /\ input'.nodeId \in DOMAIN _nodeid_index) =>
               /\ output'.threw
               /\ UNCHANGED addressSpaceVars
        /\ (called' = "_createObject" /\ ~output'.threw) =>
               /\ input'.nodeId \notin DOMAIN _nodeid_index
               /\ DOMAIN _nodeid_index' = DOMAIN _nodeid_index \cup {input'.nodeId}
        /\ \A id \in DOMAIN _nodeid_index' : _nodeid_index'[id].nodeId = id
      ]_vars

\* _createObject threw on an Object whose nodeId is the one of a registered
\* node of another class, which is still the node of the index
C22_Witness ==
    /\ called = "_createObject"
    /\ output.threw
    /\ input.nodeClass = "Object"
    /\ input.nodeId \in DOMAIN _nodeid_index
    /\ _nodeid_index[input.nodeId].nodeClass = "DataType"
    /\ DOMAIN _objectMap = {}

\* the browse-name indices, by the classes of the nodes _register puts in
\* each; the reference types have the index of their browse names
BrowseNameIndices ==
    << [classes |-> {"Object", "Variable"}, index |-> _objectMap],
       [classes |-> {"ObjectType"}, index |-> _objectTypeMap],
       [classes |-> {"VariableType"}, index |-> _variableTypeMap],
       [classes |-> {"DataType"}, index |-> _dataTypeMap],
       [classes |-> {"ReferenceType"}, index |-> _referenceTypeMap] >>

\* the browse-name indices that hold node under its browseName
IndicesOf(node) ==
    {i \in DOMAIN BrowseNameIndices :
        /\ node.browseName \in DOMAIN BrowseNameIndices[i].index
        /\ BrowseNameIndices[i].index[node.browseName] = node}

\* C23 (as stated): in every reachable state each node of the nodeId index
\* is in exactly one browse-name index, the one of its node class, under
\* its own browseName.
C23_Original ==
    \A id \in DOMAIN _nodeid_index :
        \E i \in DOMAIN BrowseNameIndices :
            /\ _nodeid_index[id].nodeClass \in BrowseNameIndices[i].classes
            /\ IndicesOf(_nodeid_index[id]) = {i}

\* C24 (as stated): a registration that fails with a construction error (a
\* node class without an index, or a ReferenceType whose inverseName.text
\* is empty) throws and leaves the address space as it was: the rejected
\* node is in no index, findObject does not return it, and its nodeId can
\* be registered afterwards.
C24_Original ==
    [][ ( /\ called' = "_createObject"
          /\ \/ input'.nodeClass \notin ConstructedNodeClasses
             \/ input'.nodeClass = "ReferenceType" /\ input'.inverseName = "" )
        => /\ output'.threw
           /\ UNCHANGED addressSpaceVars
           /\ \A id \in DOMAIN _nodeid_index' : _nodeid_index'[id] # Node(input')
           /\ input'.nodeId \notin DOMAIN _nodeid_index
                  => input'.nodeId \notin DOMAIN _nodeid_index'
      ]_vars

\* the NodeIds that element leads to from the nodes of nodeIds, node after
\* node
RECURSIVE Children(_, _)
Children(nodeIds, element) ==
    IF nodeIds = <<>>
    THEN <<>>
    ELSE browseNodeByTargetName(_nodeid_index[Head(nodeIds)], element)
             \o Children(Tail(nodeIds), element)

\* the NodeIds reached from nodeIds by matching the elements from index on
\* one after the other, one entry for each route
RECURSIVE Reached(_, _, _)
Reached(nodeIds, elements, index) ==
    IF index > Len(elements)
    THEN nodeIds
    ELSE Reached(Children(nodeIds, elements[index]), elements, index + 1)

\* C25: the targets of a Good result are the nodes reached from the
\* starting node by matching every element of the path in turn, one entry
\* for each route, the routes through an earlier reference of a node before
\* those through a later one; each target has remainingPathIndex 0xFFFFFFFF;
\* a node matched by a proper prefix of the path only is no target.
C25_TargetsAreRoutesInOrder ==
    (called = "browsePath" /\ ~output.threw /\ output.value.statusCode = "Good") =>
        LET reached == Reached(<<input.startingNode>>, input.relativePath.elements, 1)
        IN  output.value.targets =
                [i \in 1..Len(reached) |->
                    [targetId |-> reached[i], remainingPathIndex |-> FullPath]]

\* a path of two elements gave a Good result with a node twice among its
\* targets, and with two targets in the order opposite to the one of their
\* NodeIds
C25_Witness ==
    /\ called = "browsePath"
    /\ ~output.threw
    /\ output.value.statusCode = "Good"
    /\ Len(input.relativePath.elements) = 2
    /\ \E i, j \in DOMAIN output.value.targets :
           /\ i < j
           /\ output.value.targets[i].targetId = output.value.targets[j].targetId
    /\ \E i, j \in DOMAIN output.value.targets :
           /\ i < j
           /\ output.value.targets[i].targetId > output.value.targets[j].targetId

\* C26: a call of browsePath ends, whatever the references of the nodes
\* are, loops included: while it runs there are at most as many activations
\* of explore_element as the path has elements, a call that is running
\* comes to its end, and it ends with the result of browsePath.
C26_BrowsePathTerminates ==
    /\ [](callStack # <<>> => Len(callStack) <= Len(input.relativePath.elements))
    /\ (callStack # <<>>) ~> (callStack = <<>>)
    /\ []((called = "browsePath" /\ callStack = <<>>) => output = browsePath(input))

\* a call on a path of two elements has two activations of explore_element,
\* both on the root: the second was reached through the reference of the
\* root to itself
C26_Witness ==
    /\ Len(callStack) = 2
    /\ Len(input.relativePath.elements) = 2
    /\ callStack[1].node = RootFolderId
    /\ callStack[2].node = RootFolderId
    /\ callStack[2].index = 2

\* C27 (as stated): the BrowsePath that constructBrowsePath builds for
\* simpleBrowsePath(startingNode, path) starts at the RootFolder when
\* startingNode is "/" and at the given startingNode otherwise, and
\* simpleBrowsePath returns the targetId of the last target when browsePath
\* gives Good on it, and null otherwise.
C27_Original ==
    called = "simpleBrowsePath" =>
        LET built == constructBrowsePath(input.startingNode, input.pathname)
            result == browsePath(built).value
        IN  /\ built.startingNode =
                   IF input.startingNode.isString /\ input.startingNode.string = "/"
                   THEN RootFolderId
                   ELSE input.startingNode.nodeId
            /\ ~output.threw
            /\ output.value =
                   IF result.statusCode = "Good"
                   THEN Found(result.targets[Len(result.targets)].targetId)
                   ELSE NotFound

====
